---- MODULE Spec2Model ----
(***************************************************************************)
(* Model of the Standard MIDI File reader of imf-creator                   *)
(* (imfcreator/plugins/midifileplugin.py) and of the SongEvent ordering    *)
(* (imfcreator/midi.py).                                                   *)
(*                                                                         *)
(* The byte stream is a sequence of integers 0..255, fp is a position in   *)
(* it.  MidiReader._open is split into its steps: the header check, one    *)
(* iteration of the chunk loop, one iteration of the event loop of         *)
(* _read_events, and the return of _read_events.                           *)
(***************************************************************************)
EXTENDS Integers, Sequences, FiniteSets, TLC

\* ------------------------------------------------------------------------
\* Bounds of the model
\* ------------------------------------------------------------------------
MaxEvents == 3
MaxMeta == 2
MaxChunks == 2
MaxTime == 1
MaxTrack == 1
MaxVlq == 200

\* Python's None for running_status and channel.
None == -1

\* ------------------------------------------------------------------------
\* midi.py: EventType, MetaType, ControllerType, _EVENT_TYPE_ORDER
\* ------------------------------------------------------------------------
NOTE_OFF == 128
NOTE_ON == 144
POLYPHONIC_KEY_PRESSURE == 160
CONTROLLER_CHANGE == 176
PROGRAM_CHANGE == 192
CHANNEL_KEY_PRESSURE == 208
PITCH_BEND == 224
F0_SYSEX == 240
F7_SYSEX == 247
META == 255

EventType == {NOTE_OFF, NOTE_ON, POLYPHONIC_KEY_PRESSURE, CONTROLLER_CHANGE,
              PROGRAM_CHANGE, CHANNEL_KEY_PRESSURE, PITCH_BEND, F0_SYSEX,
              F7_SYSEX, META}

SEQUENCE_NUMBER == 0
CHANNEL_PREFIX == 32
PORT == 33
END_OF_TRACK == 47
SET_TEMPO == 81
SMTPE_OFFSET == 84
TIME_SIGNATURE == 88
KEY_SIGNATURE == 89
SEQUENCER_SPECIFIC == 127

\* TEXT_EVENT .. DEVICE_NAME, the text-bearing sub-types.
TextMetaTypes == 1 .. 9

\* The members of the MetaType enumeration.
MetaType == {SEQUENCE_NUMBER} \cup TextMetaTypes \cup
            {CHANNEL_PREFIX, PORT, END_OF_TRACK, SET_TEMPO, SMTPE_OFFSET,
             TIME_SIGNATURE, KEY_SIGNATURE, SEQUENCER_SPECIFIC}

\* The members of the ControllerType enumeration.
ControllerType == (0 .. 2) \cup (4 .. 8) \cup (10 .. 13) \cup (16 .. 19)
                  \cup (32 .. 34) \cup (36 .. 40) \cup (42 .. 45)
                  \cup (48 .. 51) \cup (64 .. 84) \cup (91 .. 101)
                  \cup (120 .. 127)

EVENT_TYPE_ORDER_NoteOnEarly(t) ==
    CASE t = NOTE_OFF -> 10
      [] t = NOTE_ON -> 10
      [] t = POLYPHONIC_KEY_PRESSURE -> 40
      [] t = CONTROLLER_CHANGE -> 1
      [] t = PROGRAM_CHANGE -> 0
      [] t = CHANNEL_KEY_PRESSURE -> 50
      [] t = PITCH_BEND -> 30
      [] t = F0_SYSEX -> 0
      [] t = F7_SYSEX -> 0
      [] t = META -> 0

EVENT_TYPE_ORDER(t) ==
    CASE t = NOTE_OFF -> 10
      [] t = NOTE_ON -> 100
      [] t = POLYPHONIC_KEY_PRESSURE -> 40
      [] t = CONTROLLER_CHANGE -> 1
      [] t = PROGRAM_CHANGE -> 0
      [] t = CHANNEL_KEY_PRESSURE -> 50
      [] t = PITCH_BEND -> 30
      [] t = F0_SYSEX -> 0
      [] t = F7_SYSEX -> 0
      [] t = META -> 0

\* SongEvent.__eq__
SongEventEq(self, other) ==
    IF self.time # other.time THEN FALSE
    ELSE IF EVENT_TYPE_ORDER(self.type) # EVENT_TYPE_ORDER(other.type) THEN FALSE
    ELSE IF self.track # other.track THEN FALSE
    ELSE TRUE

SongEventLt_TrackLe(self, other) ==
    IF self.time < other.time THEN TRUE
    ELSE IF self.time > other.time THEN FALSE
    ELSE IF EVENT_TYPE_ORDER(self.type) < EVENT_TYPE_ORDER(other.type) THEN TRUE
    ELSE IF EVENT_TYPE_ORDER(self.type) > EVENT_TYPE_ORDER(other.type) THEN FALSE
    ELSE self.track =< other.track

\* SongEvent.__lt__
SongEventLt(self, other) ==
    IF self.time < other.time THEN TRUE
    ELSE IF self.time > other.time THEN FALSE
    ELSE IF EVENT_TYPE_ORDER(self.type) < EVENT_TYPE_ORDER(other.type) THEN TRUE
    ELSE IF EVENT_TYPE_ORDER(self.type) > EVENT_TYPE_ORDER(other.type) THEN FALSE
    ELSE self.track < other.track

\* The argument validation of SongEvent.__init__.
SongEventValid(event_type, data, channel) ==
    /\ IF event_type \in {F0_SYSEX, F7_SYSEX, META}
       THEN channel = None
       ELSE channel # None
    /\ (event_type = META) => ("meta_type" \in DOMAIN data)

\* SongEvent.__init__ (the fields it sets).
SongEvent(track, time, event_type, data, channel) ==
    [track |-> track, time |-> time, type |-> event_type, data |-> data,
     channel |-> channel]

\* ------------------------------------------------------------------------
\* The byte stream: f is the sequence of the file's bytes, p a position of
\* fp (0-based, so the next byte is f[p + 1]).
\* ------------------------------------------------------------------------
Min(a, b) == IF a < b THEN a ELSE b
Max(a, b) == IF a > b THEN a ELSE b

\* fp.read(n) returns all n bytes.
Avail(f, p, n) == p + n =< Len(f)

\* fp.read(n): the bytes it returns, fewer than n at the end of the stream.
Read(f, p, n) == SubSeq(f, p + 1, Min(p + n, Len(f)))

\* The position of fp after fp.read(n).
AfterRead(f, p, n) == IF p >= Len(f) THEN p ELSE Min(p + n, Len(f))

\* _binary.u32be and _binary.u16be on a complete field.
u32be(b) == ((b[1] * 256 + b[2]) * 256 + b[3]) * 256 + b[4]
u16be(b) == b[1] * 256 + b[2]

\* struct.unpack("<b", ...): a signed byte.
s8(b) == IF b >= 128 THEN b - 256 ELSE b

\* The result of a read step: an error kind ("none" when it succeeded), the
\* position of fp afterwards and the value read.
Ok(p, v) == [error |-> "none", pos |-> p, value |-> v]
Err(e, p) == [error |-> e, pos |-> p, value |-> 0]

\* _u8(f): _binary.u8 of a one-byte read; the read is short at the end of
\* the stream and the conversion of the empty read fails.
u8(f, p) == IF Avail(f, p, 1) THEN Ok(p + 1, f[p + 1]) ELSE Err("ReadError", p)

\* [_u8(self.fp) for _ in range(n)]
u8list(f, p, n) ==
    IF Avail(f, p, n) THEN Ok(p + n, SubSeq(f, p + 1, p + n))
    ELSE Err("ReadError", Max(p, Len(f)))

RECURSIVE VarLength_NoMask(_, _, _)
VarLength_NoMask(f, p, length) ==
    IF ~Avail(f, p, 1) THEN Err("ReadError", p)
    ELSE IF f[p + 1] >= 128
         THEN VarLength_NoMask(f, p + 1, length * 128 + f[p + 1])
         ELSE Ok(p + 1, length * 128 + f[p + 1])

\* The loop of _read_var_length, length being the value read so far.
RECURSIVE VarLength(_, _, _)
VarLength(f, p, length) ==
    IF ~Avail(f, p, 1) THEN Err("ReadError", p)
    ELSE IF f[p + 1] >= 128
         THEN VarLength(f, p + 1, length * 128 + (f[p + 1] % 128))
         ELSE Ok(p + 1, length * 128 + f[p + 1])

\* _read_var_length(f)
read_var_length(f, p) == VarLength(f, p, 0)

\* utils.clamp
clamp(value, minimum, maximum) == Max(minimum, Min(value, maximum))

RECURSIVE Pow2(_)
Pow2(n) == IF n = 0 THEN 1 ELSE 2 * Pow2(n - 1)

RECURSIVE Repeat(_, _)
Repeat(s, n) == IF n = 0 THEN "" ELSE s \o Repeat(s, n - 1)

keys == <<"Cb", "Gb", "Db", "Ab", "Eb", "Bb", "F",
          "C", "G", "D", "A", "E", "B", "F#",
          "C#", "G#", "D#", "A#">>

KeyIndex_NoShift(sharps_flats, major_minor) ==
    LET i == sharps_flats + 7
    IN  IF i >= 0 /\ i < Len(keys) THEN i + 1
        ELSE IF i < 0 /\ i >= 0 - Len(keys) THEN Len(keys) + i + 1
        ELSE 0

\* get_key_signature: the index into keys, a negative index counting from
\* the end of the list as Python does; 0 stands for an IndexError.
KeyIndex(sharps_flats, major_minor) ==
    LET i == sharps_flats + 7 + major_minor * 3
    IN  IF i >= 0 /\ i < Len(keys) THEN i + 1
        ELSE IF i < 0 /\ i >= 0 - Len(keys) THEN Len(keys) + i + 1
        ELSE 0

get_key_signature(sharps_flats, major_minor) ==
    keys[KeyIndex(sharps_flats, major_minor)] \o Repeat("m", major_minor)

\* ------------------------------------------------------------------------
\* MidiReader._read_events: the decoding of one event
\* ------------------------------------------------------------------------

\* The payload of a META event of type meta_type whose declared length is
\* data_length, read at p.  "bpm" is the pair <<60000000, speed>> that stands
\* for the quotient 60000000 / speed.
MetaData(f, p, meta_type, data_length) ==
    LET base == [meta_type |-> meta_type] IN
    IF meta_type = SEQUENCE_NUMBER THEN
        IF data_length # 2 THEN Err("ValueError: data length", p)
        ELSE IF ~Avail(f, p, 2) THEN Err("ReadError", AfterRead(f, p, 2))
        ELSE Ok(p + 2, [meta_type |-> meta_type,
                        number |-> u16be(Read(f, p, 2))])
    ELSE IF meta_type \in TextMetaTypes THEN
        Ok(AfterRead(f, p, data_length),
           [meta_type |-> meta_type, text |-> Read(f, p, data_length)])
    ELSE IF meta_type = CHANNEL_PREFIX THEN
        IF data_length # 1 THEN Err("ValueError: data length", p)
        ELSE IF ~Avail(f, p, 1) THEN Err("ReadError", p)
        ELSE Ok(p + 1, [meta_type |-> meta_type, channel |-> f[p + 1]])
    ELSE IF meta_type = PORT THEN
        IF data_length # 1 THEN Err("ValueError: data length", p)
        ELSE IF ~Avail(f, p, 1) THEN Err("ReadError", p)
        ELSE Ok(p + 1, [meta_type |-> meta_type, port |-> f[p + 1]])
    ELSE IF meta_type = SET_TEMPO THEN
        IF data_length # 3 THEN Err("ValueError: data length", p)
        ELSE IF ~Avail(f, p, 3) THEN Err("ReadError", AfterRead(f, p, 3))
        ELSE LET speed == (f[p + 1] * 65536) + (f[p + 2] * 256) + f[p + 3]
             IN  IF speed = 0 THEN Err("ZeroDivisionError", p + 3)
                 ELSE Ok(p + 3, [meta_type |-> meta_type,
                                 bpm |-> <<60000000, speed>>])
    ELSE IF meta_type = SMTPE_OFFSET THEN
        IF data_length # 5 THEN Err("ValueError: data length", p)
        ELSE IF ~Avail(f, p, 5) THEN Err("ReadError", AfterRead(f, p, 5))
        ELSE Ok(p + 5, [meta_type |-> meta_type,
                        hours |-> f[p + 1],
                        minutes |-> f[p + 2],
                        seconds |-> f[p + 3],
                        frames |-> f[p + 4],
                        fractional_frames |-> f[p + 5]])
    ELSE IF meta_type = TIME_SIGNATURE THEN
        IF data_length # 4 THEN Err("ValueError: data length", p)
        ELSE IF ~Avail(f, p, 4) THEN Err("ReadError", AfterRead(f, p, 4))
        ELSE Ok(p + 4, [meta_type |-> meta_type,
                        numerator |-> f[p + 1],
                        denominator |-> Pow2(f[p + 2]),
                        midi_clocks_per_metronome_tick |-> f[p + 3],
                        number_of_32nd_notes_per_beat |-> f[p + 4]])
    ELSE IF meta_type = KEY_SIGNATURE THEN
        \* No check of data_length here: two bytes are read whatever it is.
        IF ~Avail(f, p, 2) THEN Err("struct.error", AfterRead(f, p, 2))
        ELSE IF KeyIndex(s8(f[p + 1]), f[p + 2]) = 0
             THEN Err("IndexError", p + 2)
             ELSE Ok(p + 2, [meta_type |-> meta_type,
                             key |-> get_key_signature(s8(f[p + 1]), f[p + 2])])
    ELSE
        IF data_length # 0
        THEN IF ~Avail(f, p, data_length) THEN Err("ReadError", Max(p, Len(f)))
             ELSE Ok(p + data_length,
                     [meta_type |-> meta_type,
                      bytes |-> SubSeq(f, p + 1, p + data_length)])
        ELSE Ok(p, base)

\* The META branch: the meta_type byte, converted by the MetaType
\* enumeration (a ValueError for a value that is not a member), the declared
\* length and the payload.
MetaEvent(f, p) ==
    LET mt == u8(f, p) IN
    IF mt.error # "none" THEN mt
    ELSE IF mt.value \notin MetaType THEN Err("ValueError: MetaType", mt.pos)
    ELSE LET dl == read_var_length(f, mt.pos) IN
         IF dl.error # "none" THEN dl
         ELSE MetaData(f, dl.pos, mt.value, dl.value)

\* The sysex branch.
SysexEvent(f, p) ==
    LET dl == read_var_length(f, p) IN
    IF dl.error # "none" THEN dl
    ELSE LET bs == u8list(f, dl.pos, dl.value) IN
         IF bs.error # "none" THEN bs
         ELSE Ok(bs.pos, [bytes |-> bs.value])

\* PITCH_BEND: value / float(0x1fff) clamped to [-1.0, 1.0], kept as its
\* numerator over 0x1fff (the bounds are scaled by 0x1fff, the division is
\* left out).
PitchBendValue_NoClamp(lsb, msb) == (lsb + msb * 128) - 8192

PitchBendValue(lsb, msb) ==
    LET value == (lsb + msb * 128) - 8192
    IN  clamp(value, (0 - 1) * 8191, 1 * 8191)

\* The channel voice branch, event_type being the status masked with 0xf0.
ChannelData(f, p, event_type) ==
    IF event_type = NOTE_OFF \/ event_type = NOTE_ON THEN
        IF ~Avail(f, p, 2) THEN Err("ReadError", AfterRead(f, p, 2))
        ELSE Ok(p + 2, [note |-> f[p + 1], velocity |-> f[p + 2]])
    ELSE IF event_type = POLYPHONIC_KEY_PRESSURE THEN
        IF ~Avail(f, p, 2) THEN Err("ReadError", AfterRead(f, p, 2))
        ELSE Ok(p + 2, [note |-> f[p + 1], pressure |-> f[p + 2]])
    ELSE IF event_type = CONTROLLER_CHANGE THEN
        IF ~Avail(f, p, 1) THEN Err("ReadError", p)
        ELSE IF f[p + 1] \notin ControllerType
             THEN Err("ValueError: ControllerType", p + 1)
        ELSE IF ~Avail(f, p, 2) THEN Err("ReadError", p + 1)
        ELSE Ok(p + 2, [controller |-> f[p + 1], value |-> f[p + 2]])
    ELSE IF event_type = PROGRAM_CHANGE THEN
        IF ~Avail(f, p, 1) THEN Err("ReadError", p)
        ELSE Ok(p + 1, [program |-> f[p + 1]])
    ELSE IF event_type = CHANNEL_KEY_PRESSURE THEN
        IF ~Avail(f, p, 1) THEN Err("ReadError", p)
        ELSE Ok(p + 1, [pressure |-> f[p + 1]])
    ELSE IF event_type = PITCH_BEND THEN
        IF ~Avail(f, p, 2) THEN Err("ReadError", AfterRead(f, p, 2))
        ELSE Ok(p + 2, [value |-> PitchBendValue(f[p + 1], f[p + 2])])
    ELSE Err("ValueError: event code", p)

\* event_type & 0xf and event_type & 0xf0
ChannelOf(event_type) == event_type % 16
MaskedType(event_type) == event_type - (event_type % 16)

\* Line 92: a status byte with the high bit set clears the running status.
ClearedStatus_Kept(running_status) == running_status

ClearedStatus(running_status) == None

\* Line 164: a channel voice status becomes the running status.
NewRunningStatus_Masked(event_type) == MaskedType(event_type)

NewRunningStatus(event_type) == event_type

\* Line 80: event_time += delta_time
AddDelta_Restart(event_time, delta_time) == delta_time

AddDelta(event_time, delta_time) == event_time + delta_time

\* The outcome of one iteration of the event loop.
EventResult(e, p, rs, t, ev) ==
    [error |-> e, pos |-> p, running_status |-> rs, event_time |-> t,
     events |-> ev]

\* One iteration of the event loop of _read_events, started at position p
\* with the given running status and event time: the error raised ("none"
\* when an event was appended), the position of fp, the running status and
\* the event time afterwards, and the events appended.
ReadOneEvent(f, p, running_status, event_time, track_number) ==
    LET dt == read_var_length(f, p) IN
    IF dt.error # "none"
    THEN EventResult(dt.error, dt.pos, running_status, event_time, <<>>)
    ELSE
    LET time == AddDelta(event_time, dt.value)
        sb == u8(f, dt.pos)
    IN
    IF sb.error # "none"
    THEN EventResult(sb.error, sb.pos, running_status, time, <<>>)
    ELSE IF sb.value < 128 /\ running_status = None
    THEN EventResult("ValueError: running status", dt.pos, running_status,
                     time, <<>>)
    ELSE
    LET event_type == IF sb.value < 128 THEN running_status ELSE sb.value
        q == IF sb.value < 128 THEN dt.pos ELSE sb.pos
        rs == IF sb.value < 128 THEN running_status
              ELSE ClearedStatus(running_status)
    IN
    IF event_type = F0_SYSEX \/ event_type = F7_SYSEX \/ event_type = META
    THEN LET d == IF event_type = META THEN MetaEvent(f, q)
                  ELSE SysexEvent(f, q)
         IN  IF d.error # "none"
             THEN EventResult(d.error, d.pos, rs, time, <<>>)
             ELSE IF ~SongEventValid(event_type, d.value, None)
             THEN EventResult("ValueError: SongEvent", d.pos, rs, time, <<>>)
             ELSE EventResult("none", d.pos, rs, time,
                    <<SongEvent(track_number, time, event_type, d.value, None)>>)
    ELSE LET d == ChannelData(f, q, MaskedType(event_type))
             rs2 == NewRunningStatus(event_type)
             channel == ChannelOf(event_type)
         IN  IF d.error # "none"
             THEN EventResult(d.error, d.pos, rs2, time, <<>>)
             ELSE IF ~SongEventValid(MaskedType(event_type), d.value, channel)
             THEN EventResult("ValueError: SongEvent", d.pos, rs2, time, <<>>)
             ELSE EventResult("none", d.pos, rs2, time,
                    <<SongEvent(track_number, time, MaskedType(event_type),
                                d.value, channel)>>)

\* The ValueErrors the reader raises, by message.
ValueErrors == {"ValueError: header chunk name",
                "ValueError: header chunk length",
                "ValueError: file format",
                "ValueError: running status",
                "ValueError: MetaType",
                "ValueError: data length",
                "ValueError: ControllerType",
                "ValueError: event code",
                "ValueError: SongEvent"}

\* ------------------------------------------------------------------------
\* The files the reader is run on
\* ------------------------------------------------------------------------
MThd == <<77, 84, 104, 100>>
MTrk == <<77, 84, 114, 107>>
\* A chunk tag that is neither MThd nor MTrk.
XFIH == <<88, 70, 73, 72>>

U16Enc(n) == <<(n \div 256) % 256, n % 256>>
U32Enc(n) == <<(n \div 16777216) % 256, (n \div 65536) % 256,
               (n \div 256) % 256, n % 256>>

HeaderChunk(tag, length, file_format) ==
    tag \o U32Enc(length) \o U16Enc(file_format) \o U16Enc(1) \o U16Enc(96)

Chunk(tag, length, body) == tag \o U32Enc(length) \o body

\* The concatenations of at most n members of S.
RECURSIVE Concats(_, _)
Concats(S, n) ==
    IF n = 0 THEN {<<>>}
    ELSE LET shorter == Concats(S, n - 1)
         IN  shorter \cup {b \o e : b \in shorter, e \in S}

\* Events as written in a track, the delta time first.
NoteOn0 == <<0, 144, 60, 100>>
NoteOn1 == <<0, 145, 60, 100>>
RunningPair == <<0, 72, 90>>
NoteOff1 == <<1, 129, 60, 0>>
Volume == <<0, 177, 7, 64>>
Controller3 == <<0, 177, 3, 64>>
Program == <<0, 193, 5>>
BendCentre == <<0, 225, 0, 64>>
PolyPressure == <<129, 0, 161, 60, 10>>
ChannelPressure == <<0, 209, 33>>
Sysex == <<0, 240, 1, 126>>
EndOfTrack == <<0, 255, 47, 0>>
UnknownMeta1 == <<0, 255, 10, 1, 85>>
UnknownMeta0 == <<0, 255, 10, 0>>
Status241 == <<0, 241, 0>>

VoiceEvents == {NoteOn1, RunningPair, NoteOff1, Volume, Controller3, Program,
                BendCentre, PolyPressure, ChannelPressure, Sysex, EndOfTrack,
                UnknownMeta1, Status241}

MetaEvents == {NoteOn1, RunningPair, EndOfTrack, UnknownMeta1, UnknownMeta0,
               <<0, 255, 96, 2, 1, 2>>,
               <<0, 255, 127, 2, 1, 2>>,
               <<0, 255, 3, 2, 65, 66>>,
               <<2, 255, 1, 0>>,
               <<0, 255, 0, 2, 1, 2>>, <<0, 255, 0, 1, 1>>,
               <<0, 255, 32, 1, 3>>, <<0, 255, 32, 2, 3, 4>>,
               <<0, 255, 33, 1, 3>>, <<0, 255, 33, 0>>,
               <<0, 255, 81, 3, 7, 161, 32>>, <<0, 255, 81, 2, 7, 161>>,
               <<0, 255, 81, 3, 0, 0, 0>>,
               <<0, 255, 84, 5, 1, 2, 3, 4, 5>>, <<0, 255, 84, 4, 1, 2, 3, 4>>,
               <<0, 255, 88, 4, 4, 2, 24, 8>>, <<0, 255, 88, 2, 4, 2>>,
               <<0, 255, 89, 2, 0, 0>>, <<0, 255, 89, 2, 0, 1>>,
               <<0, 255, 89, 2, 255, 0>>, <<0, 255, 89, 1, 0>>,
               <<0, 255, 89, 2, 5, 2>>, <<0, 255, 89, 3, 0, 0>>}

\* A valid header and one MTrk chunk whose declared length is that of its
\* body.
OneTrack(body) == HeaderChunk(MThd, 6, 0) \o Chunk(MTrk, Len(body), body)

VoiceFiles == {OneTrack(b) : b \in Concats(VoiceEvents, MaxEvents)}
MetaFiles == {OneTrack(b) : b \in Concats(MetaEvents, MaxMeta)}

\* Chunks of either tag whose declared length is one less than, equal to or
\* one more than the length of the body.
ChunkBodies == {<<>>, NoteOn0, RunningPair, NoteOn0 \o RunningPair,
                EndOfTrack \o NoteOff1}
ChunksOf(b) == {Chunk(tag, Len(b) + d, b) :
                  tag \in {MTrk, XFIH},
                  d \in {x \in {0 - 1, 0, 1} : Len(b) + x >= 0}}
Chunks == UNION {ChunksOf(b) : b \in ChunkBodies}

ChunkFiles == {HeaderChunk(MThd, 6, 1) \o c : c \in Concats(Chunks, MaxChunks)}

\* Files with a wrong or a cut header.
HeaderFiles ==
    {HeaderChunk(tag, length, file_format) \o t :
        tag \in {MThd, MTrk, XFIH}, length \in {5, 6, 7},
        file_format \in {0, 1, 2},
        t \in {<<>>, Chunk(MTrk, 4, NoteOn1)}}
    \cup {SubSeq(HeaderChunk(MThd, 6, 1), 1, n) : n \in 0 .. 13}
    \cup {SubSeq(HeaderChunk(XFIH, 6, 2), 1, n) : n \in 0 .. 13}

Files == VoiceFiles \cup MetaFiles \cup ChunkFiles \cup HeaderFiles

\* ------------------------------------------------------------------------
\* State
\* ------------------------------------------------------------------------
VARIABLES
    data,            \* the bytes of the file behind self.fp
    pos,             \* self.fp.tell()
    pc,              \* "open", "chunks", "track", "done", "failed", "order"
    error,           \* the exception open ended with, "none" otherwise
    has_events,      \* self.events has been assigned (line 48)
    events,          \* self.events
    division,        \* self.division
    track_number,    \* track_number of _open
    chunk_end,       \* locals of _read_events
    running_status,
    event_time,
    track_events,
    mtrk_count,      \* history: the MTrk chunks whose events were read
    event_mtrk,      \* history: for each event of self.events, the number
                     \* of MTrk chunks read before the chunk it came from
    ord_in,          \* the events handed to the comparison
    ord_out,         \* the results of the comparison
    vlq_in,          \* the number and the bytes after it handed to the
                     \* variable-length round trip
    vlq_out,         \* the result of _read_var_length on them
    bend_in,         \* the two data bytes of a PITCH_BEND event
    bend_out         \* the result of decoding them

vars == <<data, pos, pc, error, has_events, events, division, track_number,
          chunk_end, running_status, event_time, track_events, mtrk_count,
          event_mtrk, ord_in, ord_out, vlq_in, vlq_out, bend_in, bend_out>>

track_locals == <<chunk_end, running_status, event_time, track_events>>
history == <<mtrk_count, event_mtrk>>
order_vars == <<ord_in, ord_out>>
vlq_vars == <<vlq_in, vlq_out>>
bend_vars == <<bend_in, bend_out>>

\* The state after MidiReader.__init__, fp at the start of a file.
Init ==
    /\ data \in Files
    /\ pos = 0
    /\ pc = "open"
    /\ error = "none"
    /\ has_events = FALSE
    /\ events = <<>>
    /\ division = 0
    /\ track_number = 0
    /\ chunk_end = 0
    /\ running_status = None
    /\ event_time = 0
    /\ track_events = <<>>
    /\ mtrk_count = 0
    /\ event_mtrk = <<>>
    /\ ord_in = <<>>
    /\ ord_out = <<>>
    /\ vlq_in = <<>>
    /\ vlq_out = <<>>
    /\ bend_in = <<>>
    /\ bend_out = <<>>

\* ------------------------------------------------------------------------
\* MidiReader._open and MidiReader._read_chunk_header
\* ------------------------------------------------------------------------

\* _read_chunk_header at p: is_none when it returns None (nothing left to
\* read where the chunk name starts), else the name and the length, or the
\* failure of _binary.u32be on a short read.
read_chunk_header(f, p) ==
    LET chunk_name == Read(f, p, 4)
        q == AfterRead(f, p, 4)
    IN  IF chunk_name = <<>>
        THEN [is_none |-> TRUE, error |-> "none", pos |-> q,
              name |-> <<>>, length |-> 0]
        ELSE IF ~Avail(f, q, 4)
        THEN [is_none |-> FALSE, error |-> "ReadError",
              pos |-> AfterRead(f, q, 4), name |-> chunk_name, length |-> 0]
        ELSE [is_none |-> FALSE, error |-> "none", pos |-> q + 4,
              name |-> chunk_name, length |-> u32be(Read(f, q, 4))]

\* Lines 39-42: the checks of the header chunk.
HeaderError_AtMost6(chunk_name, chunk_length) ==
    IF chunk_name # MThd THEN "ValueError: header chunk name"
    ELSE IF chunk_length > 6 THEN "ValueError: header chunk length"
    ELSE "none"

HeaderError(chunk_name, chunk_length) ==
    IF chunk_name # MThd THEN "ValueError: header chunk name"
    ELSE IF chunk_length # 6 THEN "ValueError: header chunk length"
    ELSE "none"

\* Lines 45-46.
FileFormatError(file_format) ==
    IF file_format \notin {0, 1} THEN "ValueError: file format" ELSE "none"

\* Line 59: the exceptions the chunk loop takes for the end of the file.
Caught_Nothing(e) == FALSE

Caught(e) == e = "TypeError"

\* Line 55: self.fp.seek(chunk_length, os.SEEK_CUR)
SeekCur_FromStart(p, chunk_length) == chunk_length

SeekCur(p, chunk_length) == p + chunk_length

\* open ends with the exception e, fp at p.
Fail(e, p) ==
    /\ pc' = "failed"
    /\ error' = e
    /\ pos' = p

\* An exception e raised inside the try block of the chunk loop, fp at p.
RaiseInLoop(e, p) ==
    IF Caught(e)
    THEN /\ pc' = "done"
         /\ pos' = p
         /\ error' = error
    ELSE Fail(e, p)

\* Lines 38-49: the header chunk.
Open ==
    /\ pc = "open"
    /\ LET h == read_chunk_header(data, pos) IN
       IF h.is_none \/ h.error # "none"
           \/ HeaderError(h.name, h.length) # "none"
           \/ ~Avail(data, h.pos, 6)
           \/ FileFormatError(u16be(Read(data, h.pos, 2))) # "none"
       THEN /\ Fail(IF h.is_none THEN "TypeError"
                    ELSE IF h.error # "none" THEN h.error
                    ELSE IF HeaderError(h.name, h.length) # "none"
                         THEN HeaderError(h.name, h.length)
                    ELSE IF ~Avail(data, h.pos, 6) THEN "struct.error"
                    ELSE FileFormatError(u16be(Read(data, h.pos, 2))),
                    IF h.is_none \/ h.error # "none"
                        \/ HeaderError(h.name, h.length) # "none"
                    THEN h.pos ELSE AfterRead(data, h.pos, 6))
            /\ UNCHANGED <<has_events, events, division, track_number>>
       ELSE /\ pc' = "chunks"
            /\ pos' = h.pos + 6
            /\ error' = error
            /\ division' = u16be(Read(data, h.pos + 4, 2))
            /\ has_events' = TRUE
            /\ events' = <<>>
            /\ track_number' = 0
    /\ UNCHANGED <<data, track_locals, history, order_vars, vlq_vars,
                   bend_vars>>

\* Lines 50-58 up to the call of _read_events, and lines 59-61: one chunk
\* header of the chunk loop.
ReadChunk ==
    /\ pc = "chunks"
    /\ LET h == read_chunk_header(data, pos) IN
       IF h.is_none
       THEN /\ RaiseInLoop("TypeError", h.pos)
            /\ UNCHANGED <<track_number, track_locals>>
       ELSE IF h.error # "none"
       THEN /\ RaiseInLoop(h.error, h.pos)
            /\ UNCHANGED <<track_number, track_locals>>
       ELSE IF h.name # MTrk
       THEN /\ pos' = SeekCur(h.pos, h.length)
            /\ track_number' = track_number + 1
            /\ UNCHANGED <<pc, error, track_locals>>
       ELSE /\ pc' = "track"
            /\ pos' = h.pos
            /\ chunk_end' = h.pos + h.length
            /\ running_status' = None
            /\ event_time' = 0
            /\ track_events' = <<>>
            /\ UNCHANGED <<error, track_number>>
    /\ UNCHANGED <<data, has_events, events, division, history, order_vars,
                   vlq_vars, bend_vars>>

\* Lines 77-205: one iteration of the event loop of _read_events.
ReadEvent ==
    /\ pc = "track"
    /\ pos < chunk_end
    /\ LET r == ReadOneEvent(data, pos, running_status, event_time,
                             track_number)
       IN  /\ running_status' = r.running_status
           /\ event_time' = r.event_time
           /\ track_events' = track_events \o r.events
           /\ IF r.error = "none"
              THEN /\ pos' = r.pos
                   /\ UNCHANGED <<pc, error>>
              ELSE RaiseInLoop(r.error, r.pos)
    /\ UNCHANGED <<data, has_events, events, division, track_number, chunk_end,
                   history, order_vars, vlq_vars,
                   bend_vars>>

\* Lines 77 and 206, then lines 57-58: the event loop ends, the events of
\* the track are added to self.events and the track number is incremented.
EndTrack ==
    /\ pc = "track"
    /\ pos >= chunk_end
    /\ events' = events \o track_events
    /\ track_number' = track_number + 1
    /\ pc' = "chunks"
    /\ chunk_end' = 0
    /\ running_status' = None
    /\ event_time' = 0
    /\ track_events' = <<>>
    /\ mtrk_count' = mtrk_count + 1
    /\ event_mtrk' = event_mtrk \o [i \in 1 .. Len(track_events) |-> mtrk_count]
    /\ UNCHANGED <<data, pos, error, has_events, division, order_vars,
                   vlq_vars, bend_vars>>

Next == Open \/ ReadChunk \/ ReadEvent \/ EndTrack

Spec == Init /\ [][Next]_vars

\* MidiReader.event_count
event_count == Len(events)

\* ------------------------------------------------------------------------
\* The comparison of SongEvents, applied to three events
\* ------------------------------------------------------------------------
OrderTypes == EventType

\* The channels of an event of type t.
ChannelsOf(t) ==
    IF t \in {F0_SYSEX, F7_SYSEX, META} THEN {None}
    ELSE IF t \in {NOTE_ON, NOTE_OFF} THEN {0, 1}
    ELSE {0}

DataOf(t) == IF t = META THEN [meta_type |-> END_OF_TRACK] ELSE [note |-> 60]

OrderEvents ==
    UNION {{SongEvent(track, time, t, DataOf(t), ch) : ch \in ChannelsOf(t)} :
             track \in 0 .. MaxTrack, time \in 0 .. MaxTime, t \in OrderTypes}

InitOrder ==
    /\ ord_in \in OrderEvents \X OrderEvents \X OrderEvents
    /\ ord_out = <<>>
    /\ vlq_in = <<>>
    /\ vlq_out = <<>>
    /\ bend_in = <<>>
    /\ bend_out = <<>>
    /\ data = <<>>
    /\ pos = 0
    /\ pc = "order"
    /\ error = "none"
    /\ has_events = FALSE
    /\ events = <<>>
    /\ division = 0
    /\ track_number = 0
    /\ chunk_end = 0
    /\ running_status = None
    /\ event_time = 0
    /\ track_events = <<>>
    /\ mtrk_count = 0
    /\ event_mtrk = <<>>

\* a < b, b < a, a == b, b < c, a < c and b == c for the events a, b, c.
Compare ==
    /\ pc = "order"
    /\ ord_out = <<>>
    /\ ord_out' = [lt_ab |-> SongEventLt(ord_in[1], ord_in[2]),
                   lt_ba |-> SongEventLt(ord_in[2], ord_in[1]),
                   eq_ab |-> SongEventEq(ord_in[1], ord_in[2]),
                   eq_ba |-> SongEventEq(ord_in[2], ord_in[1]),
                   lt_bc |-> SongEventLt(ord_in[2], ord_in[3]),
                   lt_ac |-> SongEventLt(ord_in[1], ord_in[3])]
    /\ UNCHANGED <<data, pos, pc, error, has_events, events, division,
                   track_number, track_locals, history, ord_in, vlq_vars,
                   bend_vars>>

NextOrder == Compare

SpecOrder == InitOrder /\ [][NextOrder]_vars

\* ------------------------------------------------------------------------
\* Properties
\* ------------------------------------------------------------------------
Last(q) == q[Len(q)]

\* The first byte after the delta time of the event that starts at p, None
\* when the stream ends before it.
FirstByteAfterDelta(f, p) ==
    LET dt == read_var_length(f, p)
    IN  IF dt.error = "none" /\ Avail(f, dt.pos, 1) THEN f[dt.pos + 1] ELSE None

\* The position after the delta time of the event that starts at p.
AfterDelta(f, p) == read_var_length(f, p).pos

\* The event loop is about to read an event.
AtEvent == pc = "track" /\ pos < chunk_end

\* The step appended one event to the events of the track.
Appended == Len(track_events') = Len(track_events) + 1

\* C1: when open succeeds, the track of each event is the 0-based index of
\* its MTrk chunk counted among the MTrk chunks only.
C1_TrackCountsMTrkOnly ==
    pc = "done" =>
        \A i \in 1 .. Len(events) : events[i].track = event_mtrk[i]

\* An event with status 0xFF, a meta_type byte outside MetaType, a declared
\* length and a payload that are all inside the stream starts at p.
UnknownMetaAt(f, p) ==
    /\ FirstByteAfterDelta(f, p) = META
    /\ LET q == AfterDelta(f, p) + 1 IN
       /\ Avail(f, q, 1)
       /\ f[q + 1] \notin MetaType
       /\ read_var_length(f, q + 1).error = "none"
       /\ Avail(f, read_var_length(f, q + 1).pos,
                read_var_length(f, q + 1).value)

\* The payload of the META event that starts at p.
MetaPayloadAt(f, p) ==
    LET dl == read_var_length(f, AfterDelta(f, p) + 2)
    IN  SubSeq(f, dl.pos + 1, dl.pos + dl.value)

\* C2: a META event whose meta_type is not a recognized sub-type never
\* fails the decode; a META event with the raw payload (if any) is produced
\* and the decode goes on with the next event of the track.
C2_UnknownMetaStored ==
    [][(AtEvent /\ UnknownMetaAt(data, pos)) =>
        /\ pc' = "track"
        /\ error' = "none"
        /\ Appended
        /\ Last(track_events').type = META
        /\ Last(track_events').channel = None
        /\ IF MetaPayloadAt(data, pos) = <<>>
           THEN "bytes" \notin DOMAIN Last(track_events').data
           ELSE /\ "bytes" \in DOMAIN Last(track_events').data
                /\ Last(track_events').data.bytes = MetaPayloadAt(data, pos)
      ]_vars

\* The status the event that starts at p is decoded with: its status byte,
\* or the last channel voice status of the track for a byte without the
\* high bit.
StatusAt(f, p) ==
    IF FirstByteAfterDelta(f, p) >= 128 THEN FirstByteAfterDelta(f, p)
    ELSE IF FirstByteAfterDelta(f, p) # None /\ track_events # <<>>
            /\ Last(track_events).channel # None
         THEN Last(track_events).type + Last(track_events).channel
         ELSE None

\* The position of the first data byte of the event that starts at p.
FirstDataAt(f, p) ==
    IF FirstByteAfterDelta(f, p) >= 128 THEN AfterDelta(f, p) + 1
    ELSE AfterDelta(f, p)

\* C3: a CONTROLLER_CHANGE event decodes for every controller number in
\* 0..127, named by ControllerType or not, into an event whose controller is
\* that number.
C3_EveryControllerDecodes ==
    [][(/\ AtEvent
        /\ StatusAt(data, pos) # None
        /\ MaskedType(StatusAt(data, pos)) = CONTROLLER_CHANGE
        /\ Avail(data, FirstDataAt(data, pos), 2)
        /\ data[FirstDataAt(data, pos) + 1] \in 0 .. 127) =>
        /\ pc' = "track"
        /\ error' = "none"
        /\ Appended
        /\ Last(track_events').type = CONTROLLER_CHANGE
        /\ Last(track_events').data.controller
             = data[FirstDataAt(data, pos) + 1]
      ]_vars

\* The key (time, priority of type, track) of an event.
OrderKey(e) == <<e.time, EVENT_TYPE_ORDER(e.type), e.track>>

\* C4: < on SongEvents is a strict total order over the key (time, priority
\* of type, track): never a < b and b < a; a < b and b < c give a < c;
\* exactly one of a < b, a == b, b < a; and a == b exactly when the keys are
\* the same, whatever the channels, payloads and types.
C4_StrictTotalOrder ==
    ord_out # <<>> =>
        LET a == ord_in[1]
            b == ord_in[2]
        IN  /\ ~(ord_out.lt_ab /\ ord_out.lt_ba)
            /\ (ord_out.lt_ab /\ ord_out.lt_bc) => ord_out.lt_ac
            /\ \/ ord_out.lt_ab /\ ~ord_out.eq_ab /\ ~ord_out.lt_ba
               \/ ~ord_out.lt_ab /\ ord_out.eq_ab /\ ~ord_out.lt_ba
               \/ ~ord_out.lt_ab /\ ~ord_out.eq_ab /\ ord_out.lt_ba
            /\ ord_out.eq_ab = (OrderKey(a) = OrderKey(b))
            /\ ord_out.eq_ba = ord_out.eq_ab

\* Two events of different type and channel that compare equal, and a
\* chain a < b < c.
C4_Witness ==
    /\ ord_out # <<>>
    /\ ord_out.eq_ab
    /\ ord_in[1].type # ord_in[2].type
    /\ ord_in[1].channel # ord_in[2].channel
    /\ ord_out.lt_bc
    /\ ord_out.lt_ac

\* C5: at the same time a NOTE_OFF, PROGRAM_CHANGE, CONTROLLER_CHANGE or
\* PITCH_BEND compares strictly less than a NOTE_ON and the NOTE_ON never
\* less than it, whatever the tracks and channels.
C5_BeforeNoteOn ==
    (/\ ord_out # <<>>
     /\ ord_in[1].time = ord_in[2].time
     /\ ord_in[1].type = NOTE_ON
     /\ ord_in[2].type \in {NOTE_OFF, PROGRAM_CHANGE, CONTROLLER_CHANGE,
                            PITCH_BEND}) =>
        ord_out.lt_ba /\ ~ord_out.lt_ab

\* A NOTE_ON on the lower track and another channel than the NOTE_OFF it is
\* compared with.
C5_Witness ==
    /\ ord_out # <<>>
    /\ ord_in[1].time = ord_in[2].time
    /\ ord_in[1].type = NOTE_ON
    /\ ord_in[2].type = NOTE_OFF
    /\ ord_in[1].track < ord_in[2].track
    /\ ord_in[1].channel # ord_in[2].channel
    /\ ord_out.lt_ba

\* The first data byte an event was decoded from (the pitch bend value
\* keeps it in its low seven bits unless it was clamped).
HasFirstDataByte(e, b) ==
    IF e.type \in {NOTE_OFF, NOTE_ON, POLYPHONIC_KEY_PRESSURE}
    THEN e.data.note = b
    ELSE IF e.type = CONTROLLER_CHANGE THEN e.data.controller = b
    ELSE IF e.type = PROGRAM_CHANGE THEN e.data.program = b
    ELSE IF e.type = CHANNEL_KEY_PRESSURE THEN e.data.pressure = b
    ELSE IF e.type = PITCH_BEND
    THEN e.data.value = 0 - 8191 \/ (e.data.value + 8192) % 128 = b
    ELSE FALSE

\* C6: after a channel voice event of a track, an event whose first byte
\* after the delta time has the high bit clear is never refused for a
\* missing running status, and the event decoded from it has the type and
\* the channel of that channel voice event and that byte as its first data
\* byte; so it is again a channel voice event and the same holds for the
\* event after it.
C6_RunningStatus ==
    [][(/\ AtEvent
        /\ track_events # <<>>
        /\ Last(track_events).channel # None
        /\ FirstByteAfterDelta(data, pos) \in 0 .. 127) =>
        /\ error' # "ValueError: running status"
        /\ Appended =>
            /\ Last(track_events').type = Last(track_events).type
            /\ Last(track_events').channel = Last(track_events).channel
            /\ HasFirstDataByte(Last(track_events'),
                                FirstByteAfterDelta(data, pos))
      ]_vars

\* A note-on with notes 60, 100 followed by two events 72, 90 without a
\* status byte gave three NOTE_ON events on the channel of the first.
C6_Witness ==
    /\ pc = "track"
    /\ Len(track_events) = 3
    /\ Len(data) >= 32
    /\ SubSeq(data, 23, 32) = NoteOn1 \o RunningPair \o RunningPair
    /\ \A i \in 1 .. 3 : /\ track_events[i].type = NOTE_ON
                         /\ track_events[i].channel = 1
    /\ track_events[1].data.note = 60
    /\ track_events[2].data.note = 72
    /\ track_events[3].data = [note |-> 72, velocity |-> 90]

\* C7: an event whose first byte after the delta time has the high bit
\* clear fails the decode with the running status ValueError when it is the
\* first event of its track or when the event before it in the track was a
\* META or sysex event.
C7_NoRunningStatus ==
    [][(/\ AtEvent
        /\ FirstByteAfterDelta(data, pos) \in 0 .. 127
        /\ \/ track_events = <<>>
           \/ Last(track_events).type \in {META, F0_SYSEX, F7_SYSEX}) =>
        /\ pc' = "failed"
        /\ error' = "ValueError: running status"
        /\ error' \in ValueErrors
      ]_vars

\* The decode failed at the first event of a track that follows a track
\* ending in a channel voice event.
C7_Witness ==
    /\ pc = "failed"
    /\ error = "ValueError: running status"
    /\ track_events = <<>>
    /\ mtrk_count = 1
    /\ events # <<>>
    /\ Last(events).channel # None

\* The header chunk of the file is complete and has a wrong tag or length,
\* or the header is complete and has a file format other than 0 and 1.
BadHeader(f) ==
    \/ /\ Len(f) >= 8
       /\ SubSeq(f, 1, 4) # MThd \/ u32be(SubSeq(f, 5, 8)) # 6
    \/ /\ Len(f) >= 14
       /\ u16be(SubSeq(f, 9, 10)) \notin {0, 1}

\* C8: with a first chunk whose tag is not MThd or whose length is not 6,
\* or with a file format other than 0 and 1, open fails with a ValueError
\* before anything after the header is read and without any event.
C8_BadHeaderFails ==
    (pc # "open" /\ BadHeader(data)) =>
        /\ pc = "failed"
        /\ error \in ValueErrors
        /\ ~has_events
        /\ events = <<>>
        /\ track_events = <<>>
        /\ pos =< 14
        /\ mtrk_count = 0
        /\ track_number = 0

\* open failed on a header of declared length 5 that a track follows.
C8_Witness ==
    /\ pc = "failed"
    /\ Len(data) > 14
    /\ SubSeq(data, 1, 4) = MThd
    /\ u32be(SubSeq(data, 5, 8)) = 5
    /\ error = "ValueError: header chunk length"

C10_OtherChunkSkipped ==
    [][(/\ pc = "chunks"
        /\ Avail(data, pos, 8)
        /\ SubSeq(data, pos + 1, pos + 4) # MTrk) =>
        /\ pc' = "chunks"
        /\ error' = "none"
        /\ events' = events
        /\ track_events' = track_events
        /\ pos' = pos + 8 + u32be(SubSeq(data, pos + 5, pos + 8))
      ]_vars

\* Two chunks of another tag, the first with a body that is no valid track
\* and a declared length one less than the body, were skipped and open
\* succeeded.
C10_Witness ==
    /\ pc = "done"
    /\ error = "none"
    /\ mtrk_count = 0
    /\ track_number = 2
    /\ Len(data) >= 25
    /\ SubSeq(data, 15, 25) = Chunk(XFIH, 2, RunningPair)
    /\ events = <<>>

\* The payload length a META sub-type of fixed length requires, None for
\* the other sub-types.
RequiredLength(meta_type) ==
    CASE meta_type = SEQUENCE_NUMBER -> 2
      [] meta_type = CHANNEL_PREFIX -> 1
      [] meta_type = PORT -> 1
      [] meta_type = SET_TEMPO -> 3
      [] meta_type = SMTPE_OFFSET -> 5
      [] meta_type = TIME_SIGNATURE -> 4
      [] meta_type = KEY_SIGNATURE -> 2
      [] OTHER -> None

\* A META event starts at p whose meta_type byte and declared length are
\* inside the stream.
MetaAt(f, p) ==
    /\ FirstByteAfterDelta(f, p) = META
    /\ Avail(f, AfterDelta(f, p) + 1, 1)
    /\ read_var_length(f, AfterDelta(f, p) + 2).error = "none"

\* The meta_type byte and the declared length of the META event at p.
MetaTypeAt(f, p) == f[AfterDelta(f, p) + 2]
MetaLengthAt(f, p) == read_var_length(f, AfterDelta(f, p) + 2).value

\* A META event of a fixed-length sub-type in types starts at p with a
\* declared length other than the required one.
LengthMismatchAt(f, p, types) ==
    /\ MetaAt(f, p)
    /\ MetaTypeAt(f, p) \in types
    /\ MetaLengthAt(f, p) # RequiredLength(MetaTypeAt(f, p))

FixedLengthTypes == {SEQUENCE_NUMBER, CHANNEL_PREFIX, PORT, SET_TEMPO,
                     SMTPE_OFFSET, TIME_SIGNATURE, KEY_SIGNATURE}

\* C11: a META event of a fixed-length sub-type (SEQUENCE_NUMBER 2,
\* CHANNEL_PREFIX 1, PORT 1, SET_TEMPO 3, SMTPE_OFFSET 5, TIME_SIGNATURE 4,
\* KEY_SIGNATURE 2) whose declared length is not the required one fails the
\* decode with a ValueError.
C11_WrongLengthFails ==
    [][(AtEvent /\ LengthMismatchAt(data, pos, FixedLengthTypes)) =>
        /\ pc' = "failed"
        /\ error' \in ValueErrors
      ]_vars

\* A KEY_SIGNATURE event of declared length 2 with the payload bytes
\* (sharps_flats, major_minor) starts at p.
KeySignatureAt(f, p, sharps_flats, major_minor) ==
    /\ MetaAt(f, p)
    /\ MetaTypeAt(f, p) = KEY_SIGNATURE
    /\ MetaLengthAt(f, p) = 2
    /\ Avail(f, AfterDelta(f, p) + 3, 2)
    /\ f[AfterDelta(f, p) + 4] = sharps_flats
    /\ f[AfterDelta(f, p) + 5] = major_minor

\* The step appended a KEY_SIGNATURE event with the key k.
DecodedKey(k) ==
    /\ pc' = "track"
    /\ Appended
    /\ Last(track_events').type = META
    /\ Last(track_events').data.meta_type = KEY_SIGNATURE
    /\ Last(track_events').data.key = k

\* C12 as stated: the payload (0, 0) decodes to the key "C" and the payload
\* (0, 1) to the key "Cm".
C12_MinorIsCm ==
    [][/\ (AtEvent /\ KeySignatureAt(data, pos, 0, 0)) => DecodedKey("C")
       /\ (AtEvent /\ KeySignatureAt(data, pos, 0, 1)) => DecodedKey("Cm")
      ]_vars

\* C12 as amended: the payload (0, 0) (no sharps or flats, major) decodes to
\* the key "C" and the payload (0, 1) (no sharps or flats, minor) to the key
\* "Am".
C12_MinorIsAm ==
    [][/\ (AtEvent /\ KeySignatureAt(data, pos, 0, 0)) => DecodedKey("C")
       /\ (AtEvent /\ KeySignatureAt(data, pos, 0, 1)) => DecodedKey("Am")
      ]_vars

\* A track whose first event is the KEY_SIGNATURE (0, 1), decoded to "Am".
C12_Witness ==
    /\ pc = "track"
    /\ Len(track_events) = 1
    /\ Len(data) >= 28
    /\ SubSeq(data, 23, 28) = <<0, 255, 89, 2, 0, 1>>
    /\ track_events[1].type = META
    /\ track_events[1].data.meta_type = KEY_SIGNATURE
    /\ track_events[1].data.key = "Am"

\* The time of the last event read in the track so far, 0 at its start.
LastTime == IF track_events = <<>> THEN 0 ELSE Last(track_events).time

\* C13: the time of an event is the time of the event before it in its
\* track, 0 for the first event of an MTrk chunk, plus its own delta time,
\* so it is the sum of the delta times of the track up to it and the times
\* of a track never decrease in decoded order.
C13_TimesAccumulate ==
    [][/\ (AtEvent /\ Appended) =>
            /\ Last(track_events').time
                 = LastTime + read_var_length(data, pos).value
            /\ Last(track_events').time >= LastTime
            /\ SubSeq(track_events', 1, Len(track_events)) = track_events
       /\ (pc = "chunks" /\ pc' = "track") => track_events' = <<>>
       /\ (pc = "track" /\ pc' = "chunks") =>
            /\ events' = events \o track_events
            /\ \A i, j \in 1 .. Len(track_events) :
                 i < j => track_events[i].time =< track_events[j].time
      ]_vars

\* A track with the times 0, 1 was read after a track that ended at time 1:
\* the second track started again from 0.
C13_Witness ==
    /\ pc = "track"
    /\ Len(track_events) = 2
    /\ track_events[1].time = 0
    /\ track_events[2].time = 1
    /\ mtrk_count = 1
    /\ Len(events) = 2
    /\ events[2].time = 1

\* ------------------------------------------------------------------------
\* _read_var_length applied to the encoding of a number, and the PITCH_BEND
\* branch applied to two data bytes
\* ------------------------------------------------------------------------

\* The reader is not used: the state of the variables of MidiReader in the
\* specifications of the single functions, pc naming the function.
ReaderUnused(function) ==
    /\ data = <<>>
    /\ pos = 0
    /\ pc = function
    /\ error = "none"
    /\ has_events = FALSE
    /\ events = <<>>
    /\ division = 0
    /\ track_number = 0
    /\ chunk_end = 0
    /\ running_status = None
    /\ event_time = 0
    /\ track_events = <<>>
    /\ mtrk_count = 0
    /\ event_mtrk = <<>>

\* The standard MIDI variable-length encoding of n: the groups of 7 bits
\* above the lowest one, most significant first, each with the high bit
\* set.
RECURSIVE VlqHigh(_)
VlqHigh(m) ==
    IF m = 0 THEN <<>> ELSE VlqHigh(m \div 128) \o <<128 + (m % 128)>>

\* The encoding of n, the lowest group last with the high bit clear.
VlqEncode(n) == VlqHigh(n \div 128) \o <<n % 128>>

\* The numbers encoded: the small ones and those around the changes of the
\* length of the encoding, up to 0x0FFFFFFF.
VlqNumbers == (0 .. MaxVlq) \cup {16383, 16384, 16385, 2097151, 2097152,
                                  2097153, 268435454, 268435455}

\* The bytes that follow the encoding in the stream.
VlqTails == {<<>>, <<0>>, <<129, 5>>}

InitVlq ==
    /\ vlq_in \in [n : VlqNumbers, tail : VlqTails]
    /\ vlq_out = <<>>
    /\ ord_in = <<>>
    /\ ord_out = <<>>
    /\ bend_in = <<>>
    /\ bend_out = <<>>
    /\ ReaderUnused("read_var_length")

\* _read_var_length on a stream that starts with the encoding of the number.
DecodeVlq ==
    /\ pc = "read_var_length"
    /\ vlq_out = <<>>
    /\ vlq_out' = read_var_length(VlqEncode(vlq_in.n) \o vlq_in.tail, 0)
    /\ UNCHANGED <<data, pos, pc, error, has_events, events, division,
                   track_number, track_locals, history, order_vars, vlq_in,
                   bend_vars>>

NextVlq == DecodeVlq

SpecVlq == InitVlq /\ [][NextVlq]_vars

\* C14: for the numbers up to 0x0FFFFFFF, _read_var_length on the standard
\* encoding of n returns n and leaves fp right after the encoding, whatever
\* follows it.
C14_VlqRoundTrip ==
    vlq_out # <<>> =>
        /\ vlq_out.error = "none"
        /\ vlq_out.value = vlq_in.n
        /\ vlq_out.pos = Len(VlqEncode(vlq_in.n))

\* 0x0FFFFFFF, encoded as FF FF FF 7F and followed by two more bytes, was
\* decoded.
C14_Witness ==
    /\ vlq_out # <<>>
    /\ vlq_in.n = 268435455
    /\ VlqEncode(vlq_in.n) = <<255, 255, 255, 127>>
    /\ vlq_in.tail = <<129, 5>>
    /\ vlq_out.value = 268435455
    /\ vlq_out.pos = 4

\* The values of a byte of the stream.
Bytes == 0 .. 255

InitBend ==
    /\ bend_in \in Bytes \X Bytes
    /\ bend_out = <<>>
    /\ ord_in = <<>>
    /\ ord_out = <<>>
    /\ vlq_in = <<>>
    /\ vlq_out = <<>>
    /\ ReaderUnused("pitch_bend")

\* Lines 195-199 on the two data bytes.
DecodeBend ==
    /\ pc = "pitch_bend"
    /\ bend_out = <<>>
    /\ bend_out' = ChannelData(bend_in, 0, PITCH_BEND)
    /\ UNCHANGED <<data, pos, pc, error, has_events, events, division,
                   track_number, track_locals, history, order_vars, vlq_vars,
                   bend_in>>

NextBend == DecodeBend

SpecBend == InitBend /\ [][NextBend]_vars

\* C15: the value of a PITCH_BEND event, here in units of 1/8191, is
\* lsb + msb * 128 - 8192 brought into -8191 .. 8191, that is into
\* [-1.0, 1.0], whatever the two data bytes: 0x2000 gives 0, 0x3FFF gives
\* 8191 (1.0) and 0x0000, which is -8192 before clamping, gives -8191
\* (-1.0).
C15_BendInRange ==
    bend_out # <<>> =>
        LET raw == bend_in[1] + bend_in[2] * 128 - 8192
            value == bend_out.value.value
        IN  /\ bend_out.error = "none"
            /\ value >= 0 - 8191
            /\ value =< 8191
            /\ value = IF raw > 8191 THEN 8191
                       ELSE IF raw < 0 - 8191 THEN 0 - 8191
                       ELSE raw
            /\ bend_in = <<0, 64>> => value = 0
            /\ bend_in = <<127, 127>> => value = 8191
            /\ bend_in = <<0, 0>> => value = 0 - 8191

\* The data bytes 0, 0 were decoded and clamped to -1.0.
C15_Witness ==
    /\ bend_out # <<>>
    /\ bend_in = <<0, 0>>
    /\ bend_out.value.value = 0 - 8191

\* C16: the events of an MTrk chunk consume no byte at or after
\* chunk_end, the position of the body plus the declared length, and the
\* header of the next chunk is read at chunk_end.
C16_BoundedByLength ==
    [][/\ (AtEvent /\ pc' = "track") => pos' =< chunk_end
       /\ (pc = "track" /\ pc' = "chunks") => pos' = chunk_end]_vars

====
